---- MODULE Spec2Model ----
(***************************************************************************)
(* Order engine of apps/api/src/routes/order.routes.ts: the create-order   *)
(* and update-status handlers running as concurrent requests against one   *)
(* shared store (orders, order events, product stock).  Every await of a   *)
(* handler is a point where another request may run; a prisma.$transaction *)
(* block commits or rolls back as one step.                                *)
(***************************************************************************)
EXTENDS Integers, Sequences, FiniteSets, TLC

----------------------------------------------------------------------------
(* Bounds of the model *)

MaxSlots == 2
MaxOrders == 2
StockBound == 2
MaxUpdates == 2
SeqUpdates == 4

----------------------------------------------------------------------------
(* Inputs and constants of the program *)

Slots == 1..MaxSlots
Products == {1, 2}
Users == {"u1", "u2"}
Managers == {"admin"}
NoKey == "none"
Keys == {"k1"}
NoTracking == ""
TrackingNumbers == {NoTracking, "TRK1"}

InitStock == [p \in Products |-> StockBound]
CatalogPrice == [p \in Products |-> 5 * p]

OrderStatus == {"PENDING", "PROCESSING", "SHIPPED", "DELIVERED", "CANCELLED", "REFUNDED"}

VALID_STATUS_TRANSITIONS ==
  [s \in OrderStatus |->
     CASE s = "PENDING"    -> {"PROCESSING", "CANCELLED"}
       [] s = "PROCESSING" -> {"SHIPPED", "CANCELLED"}
       [] s = "SHIPPED"    -> {"DELIVERED"}
       [] s = "DELIVERED"  -> {"REFUNDED"}
       [] s = "CANCELLED"  -> {}
       [] s = "REFUNDED"   -> {}]

FraudRiskThreshold == 80
FraudResponses ==
  { [ok |-> FALSE, riskScore |-> 0],
    [ok |-> TRUE, riskScore |-> 80],
    [ok |-> TRUE, riskScore |-> 90] }

\* request bodies of PATCH /:id/status: every target status without a tracking
\* number, and a tracking number with the targets PROCESSING and SHIPPED
UpdateBodies ==
  {[status |-> st, trackingNumber |-> NoTracking] : st \in OrderStatus}
    \cup {[status |-> st, trackingNumber |-> "TRK1"] : st \in {"PROCESSING", "SHIPPED"}}

RequestItem(p, q) == [productId |-> p, quantity |-> q, price |-> CatalogPrice[p]]

\* request carts of POST /: no item, one item of a quantity of 1 and of 2, and
\* two items of two products
Carts ==
  { <<>>,
    <<RequestItem(1, 1)>>,
    <<RequestItem(1, 2)>>,
    <<RequestItem(2, 1), RequestItem(1, 2)>> }

\* authenticated requesters of GET /:id: req.user.id and req.user.role
Readers ==
  { [id |-> "u1", role |-> "customer"],
    [id |-> "u2", role |-> "customer"],
    [id |-> "mgr", role |-> "order_manager"],
    [id |-> "admin", role |-> "admin"] }

\* outcomes of a write of the post-commit hook: the store carries every write
\* out, or it may reject one
StoreUp == {TRUE}
StoreMayFail == {TRUE, FALSE}

SpecUsers == {"u1"}
SpecKeys == {NoKey}
SpecCarts == {<<RequestItem(1, 1)>>}
SpecBodies == UpdateBodies
SeqUsers == {"u1"}
SeqCarts == {<<RequestItem(1, 1)>>}
\* carts of creations that are cancelled later: one item, two items of two
\* products, and two items of the same product
CancelCarts ==
  { <<RequestItem(1, 2)>>,
    <<RequestItem(2, 1), RequestItem(1, 2)>>,
    <<RequestItem(1, 1), RequestItem(1, 1)>> }
SeqBodies ==
  {b \in UpdateBodies : b.trackingNumber = NoTracking \/ b.status = "SHIPPED"}

----------------------------------------------------------------------------
(* State *)

VARIABLES
  stock,          \* product id -> stock counter
  orders,         \* sequence of Order rows; the id of a row is its index
  events,         \* order id -> its OrderEvent rows in commit order
  req,            \* slot -> the request running in it
  fraudEnabled,   \* env.NODE_ENV = production and env.FRAUD_CHECK_ENABLED = true
  reversals       \* history: order id -> times its items' stock was given back

vars == <<stock, orders, events, req, fraudEnabled, reversals>>

\* the error a handler caught: its class and what it names
Error(name, productId, from, to) ==
  [name |-> name, productId |-> productId, from |-> from, to |-> to]
NoError == Error("", 0, "", "")
InternalError == Error("Error", 0, "", "")

NullOrder ==
  [id |-> 0, userId |-> "", total |-> 0, status |-> "", idempotencyKey |-> NoKey,
   trackingNumber |-> NoTracking, items |-> <<>>]

IdleSlot ==
  [op |-> "none", pc |-> "idle", userId |-> "", items |-> <<>>,
   idempotencyKey |-> NoKey, id |-> 0, status |-> "", trackingNumber |-> NoTracking,
   order |-> NullOrder, fraudRisk |-> 0, currentOrder |-> NullOrder,
   code |-> 0, body |-> NullOrder, error |-> NoError, role |-> "", log |-> <<>>]

Init ==
  /\ stock = InitStock
  /\ orders = <<>>
  /\ events = <<>>
  /\ req = [s \in Slots |-> IdleSlot]
  /\ fraudEnabled \in BOOLEAN
  /\ reversals = <<>>

----------------------------------------------------------------------------
(* Helpers of the create-order handler *)

RECURSIVE SumSubtotals(_, _)
SumSubtotals(details, n) ==
  IF n = 0 THEN 0 ELSE SumSubtotals(details, n - 1) + details[n].subtotal

\* calculateOrderTotal of @/utils/order: prices the cart against the catalog
calculateOrderTotal(items) ==
  LET itemsWithDetails ==
        [i \in 1..Len(items) |->
           [productId |-> items[i].productId,
            quantity  |-> items[i].quantity,
            price     |-> CatalogPrice[items[i].productId],
            subtotal  |-> CatalogPrice[items[i].productId] * items[i].quantity]]
  IN [total |-> SumSubtotals(itemsWithDetails, Len(itemsWithDetails)),
      itemsWithDetails |-> itemsWithDetails]

\* prisma.order.findFirst({ where: { idempotencyKey } }): 0 when there is none
findFirstByKey(key) ==
  IF \E i \in 1..Len(orders) : orders[i].idempotencyKey = key
    THEN CHOOSE i \in 1..Len(orders) :
           /\ orders[i].idempotencyKey = key
           /\ \A j \in 1..Len(orders) : orders[j].idempotencyKey = key => i <= j
    ELSE 0

\* variant: the check is skipped
IdempotencyCheck_Skipped(key) == 0

\* the idempotency check of POST /: the order to replay, 0 to go on and create
IdempotencyCheck(key) ==
  IF key # NoKey THEN findFirstByKey(key) ELSE 0

\* variant: no unique index on the key
UniqueKeyConstraint_Absent(key) == TRUE

\* unique index of Order.idempotencyKey: may a row with this key be inserted
UniqueKeyConstraint(key) ==
  key = NoKey \/ \A i \in 1..Len(orders) : orders[i].idempotencyKey # key

\* variant: the items are stored with the unit price as their subtotal
NewOrder_UnitSubtotal(id, userId, total, key, itemsWithDetails) ==
  [id |-> id, userId |-> userId, total |-> total, status |-> "PENDING",
   idempotencyKey |-> key, trackingNumber |-> NoTracking,
   items |-> [i \in 1..Len(itemsWithDetails) |->
                [productId |-> itemsWithDetails[i].productId,
                 quantity  |-> itemsWithDetails[i].quantity,
                 price     |-> itemsWithDetails[i].price,
                 subtotal  |-> itemsWithDetails[i].price]]]

\* the row tx.order.create inserts, with its nested items
NewOrder(id, userId, total, key, itemsWithDetails) ==
  [id |-> id, userId |-> userId, total |-> total, status |-> "PENDING",
   idempotencyKey |-> key, trackingNumber |-> NoTracking,
   items |-> [i \in 1..Len(itemsWithDetails) |->
                [productId |-> itemsWithDetails[i].productId,
                 quantity  |-> itemsWithDetails[i].quantity,
                 price     |-> itemsWithDetails[i].price,
                 subtotal  |-> itemsWithDetails[i].subtotal]]]

\* variant: the decrement without its stock condition
ConditionalDecrement_Unconditional(st, item) ==
  [count |-> 1, stock |-> [st EXCEPT ![item.productId] = @ - item.quantity]]

\* tx.product.updateMany({ where: { id, stock: { gte: quantity } },
\*                         data: { stock: { decrement: quantity } } })
ConditionalDecrement(st, item) ==
  IF st[item.productId] >= item.quantity
    THEN [count |-> 1, stock |-> [st EXCEPT ![item.productId] = @ - item.quantity]]
    ELSE [count |-> 0, stock |-> st]

\* the batch of conditional decrements, run in item order inside the transaction
RECURSIVE BatchInventoryUpdate(_, _, _)
BatchInventoryUpdate(st, items, n) ==
  IF n = 0 THEN [stock |-> st, counts |-> <<>>]
  ELSE LET prev == BatchInventoryUpdate(st, items, n - 1)
           res  == ConditionalDecrement(prev.stock, items[n])
       IN [stock |-> res.stock, counts |-> Append(prev.counts, res.count)]

\* updateResults.forEach: the index of the first update that matched no row, or 0
FirstZeroCount(counts) ==
  IF \E i \in 1..Len(counts) : counts[i] = 0
    THEN CHOOSE i \in 1..Len(counts) :
           counts[i] = 0 /\ \A j \in 1..(i - 1) : counts[j] # 0
    ELSE 0

InsufficientStockError(productId) == Error("InsufficientStockError", productId, "", "")

\* variant: the event does not carry the total
CreatedEvent_NoTotal(orderId, userId, total) ==
  [orderId |-> orderId, type |-> "CREATED", userId |-> userId,
   payload |-> [status |-> "PENDING", total |-> 0]]

CreatedEvent(orderId, userId, total) ==
  [orderId |-> orderId, type |-> "CREATED", userId |-> userId,
   payload |-> [status |-> "PENDING", total |-> total]]

\* variant: the writes are not in a transaction, the decrements applied before
\* the InsufficientStock error stay
CreateTransaction_NoRollback(userId, items, key) ==
  LET priced   == calculateOrderTotal(items)
      newId    == Len(orders) + 1
      newOrder == NewOrder(newId, userId, priced.total, key, priced.itemsWithDetails)
      batch    == BatchInventoryUpdate(stock, items, Len(items))
      failed   == FirstZeroCount(batch.counts)
  IN IF ~UniqueKeyConstraint(key)
       THEN [committed |-> FALSE, error |-> InternalError, order |-> NullOrder,
             stock |-> stock, orders |-> orders, events |-> events,
             reversals |-> reversals]
     ELSE IF failed # 0
       THEN [committed |-> FALSE,
             error |-> InsufficientStockError(items[failed].productId),
             order |-> NullOrder,
             stock |-> batch.stock, orders |-> orders, events |-> events,
             reversals |-> reversals]
     ELSE [committed |-> TRUE, error |-> NoError, order |-> newOrder,
           stock |-> batch.stock,
           orders |-> Append(orders, newOrder),
           events |-> Append(events, <<CreatedEvent(newId, userId, priced.total)>>),
           reversals |-> Append(reversals, 0)]

\* what the create transaction leaves in the store: its writes when it commits,
\* the store as it was when it rolls back
CreateTransaction(userId, items, key) ==
  LET priced   == calculateOrderTotal(items)
      newId    == Len(orders) + 1
      newOrder == NewOrder(newId, userId, priced.total, key, priced.itemsWithDetails)
      batch    == BatchInventoryUpdate(stock, items, Len(items))
      failed   == FirstZeroCount(batch.counts)
  IN IF ~UniqueKeyConstraint(key)
       THEN [committed |-> FALSE, error |-> InternalError, order |-> NullOrder,
             stock |-> stock, orders |-> orders, events |-> events,
             reversals |-> reversals]
     ELSE IF failed # 0
       THEN [committed |-> FALSE,
             error |-> InsufficientStockError(items[failed].productId),
             order |-> NullOrder,
             stock |-> stock, orders |-> orders, events |-> events,
             reversals |-> reversals]
     ELSE [committed |-> TRUE, error |-> NoError, order |-> newOrder,
           stock |-> batch.stock,
           orders |-> Append(orders, newOrder),
           events |-> Append(events, <<CreatedEvent(newId, userId, priced.total)>>),
           reversals |-> Append(reversals, 0)]

\* res.status(code).json(...): the slot keeps the response, what the request
\* wrote with logger.error, for a failed creation the cart it was about, for a
\* read who asked for which order, for a replayed creation who asked, and for
\* a failed update the id it was about, until it takes its next request
Respond(r, code, body, error) ==
  [IdleSlot EXCEPT !.op = r.op, !.pc = "done", !.code = code, !.body = body,
                   !.error = error, !.log = r.log,
                   !.items = IF r.op = "create" /\ body = NullOrder
                               THEN r.items ELSE <<>>,
                   !.userId = IF r.op = "get" \/ (r.op = "create" /\ code = 409 /\ body # NullOrder)
                                THEN r.userId ELSE "",
                   !.role = IF r.op = "get" THEN r.role ELSE "",
                   !.id = IF r.op = "get" \/ (r.op = "update" /\ body = NullOrder)
                            THEN r.id ELSE 0]

----------------------------------------------------------------------------
(* POST / : create order *)

\* creations past their idempotency check whose transaction has not run yet
InFlightCreates == Cardinality({s \in Slots : req[s].pc = "createTx"})

\* request accepted (userId = req.user.id), idempotency check
CreateStart(s, userId, key) ==
  /\ req[s].pc \in {"idle", "done"}
  /\ IdempotencyCheck(key) # 0 \/ Len(orders) + InFlightCreates < MaxOrders
  /\ LET r == [IdleSlot EXCEPT !.op = "create", !.userId = userId,
                               !.idempotencyKey = key]
         existing == IdempotencyCheck(key)
     IN req' = [req EXCEPT ![s] =
                  IF existing # 0
                    THEN Respond(r, 409, orders[existing], NoError)
                    ELSE [r EXCEPT !.pc = "createTx"]]
  /\ UNCHANGED <<stock, orders, events, fraudEnabled, reversals>>

\* logger.error(error, 'Order creation failed') in the catch of the handler
CreateCatch(r) == [r EXCEPT !.log = Append(@, "Order creation failed")]

\* calculateOrderTotal and the creation transaction; the items are fixed
\* when the request arrives and first read here
CreateTx(s, items) ==
  /\ req[s].op = "create" /\ req[s].pc = "createTx"
  /\ LET r  == [req[s] EXCEPT !.items = items]
         tx == CreateTransaction(r.userId, r.items, r.idempotencyKey)
     IN /\ stock' = tx.stock
        /\ orders' = tx.orders
        /\ events' = tx.events
        /\ reversals' = tx.reversals
        /\ req' = [req EXCEPT ![s] =
             IF tx.committed
               THEN IF fraudEnabled
                      THEN [r EXCEPT !.pc = "fraud", !.order = tx.order]
                      ELSE Respond([r EXCEPT !.order = tx.order], 201, tx.order, NoError)
             ELSE IF tx.error.name = "InsufficientStockError"
               THEN Respond(CreateCatch(r), 409, NullOrder, tx.error)
             ELSE Respond(CreateCatch(r), 500, NullOrder, tx.error)]
  /\ UNCHANGED fraudEnabled

\* variant: a failed call counts as the highest risk
performFraudCheck_FailClosed(response) ==
  IF response.ok THEN response.riskScore ELSE 100

\* performFraudCheck: the risk score, 0 when the service call fails
performFraudCheck(response) ==
  IF response.ok THEN response.riskScore ELSE 0

\* logger.error(error, 'Fraud check failed') in the catch of performFraudCheck
FraudCheckLog(response) ==
  IF response.ok THEN <<>> ELSE <<"Fraud check failed">>

FraudCheck(s, response) ==
  /\ req[s].op = "create" /\ req[s].pc = "fraud"
  /\ LET r == [req[s] EXCEPT !.log = @ \o FraudCheckLog(response)]
         fraudRisk == performFraudCheck(response)
     IN req' = [req EXCEPT ![s] =
                  IF fraudRisk > FraudRiskThreshold
                    THEN [r EXCEPT !.pc = "flagStatus", !.fraudRisk = fraudRisk]
                    ELSE Respond(r, 201, r.order, NoError)]
  /\ UNCHANGED <<stock, orders, events, fraudEnabled, reversals>>

\* prisma.order.update({ where: { id }, data: { status: 'PENDING_REVIEW' } });
\* written says whether the store carried the write out: when it did not, the
\* call rejects and the handler's catch answers
FlagStatus(s, written) ==
  /\ req[s].op = "create" /\ req[s].pc = "flagStatus"
  /\ orders' = IF written
                 THEN [orders EXCEPT ![req[s].order.id].status = "PENDING_REVIEW"]
                 ELSE orders
  /\ req' = [req EXCEPT ![s] =
               IF written
                 THEN [req[s] EXCEPT !.pc = "flagEvent"]
                 ELSE Respond(CreateCatch(req[s]), 500, NullOrder, InternalError)]
  /\ UNCHANGED <<stock, events, fraudEnabled, reversals>>

\* variant: the insert replaces the events the order had
AppendEvent_Replace(log, event) == <<event>>

\* orderEvent.create: a new row after the rows the order has
AppendEvent(log, event) == Append(log, event)

FraudFlaggedEvent(orderId, riskScore) ==
  [orderId |-> orderId, type |-> "FRAUD_FLAGGED", userId |-> "system",
   payload |-> [riskScore |-> riskScore]]

\* prisma.orderEvent.create of the FRAUD_FLAGGED event, then the response
FlagEvent(s, written) ==
  /\ req[s].op = "create" /\ req[s].pc = "flagEvent"
  /\ events' = IF written
                 THEN [events EXCEPT ![req[s].order.id] =
                         AppendEvent(@, FraudFlaggedEvent(req[s].order.id,
                                                          req[s].fraudRisk))]
                 ELSE events
  /\ req' = [req EXCEPT ![s] =
               IF written
                 THEN Respond(req[s], 201, req[s].order, NoError)
                 ELSE Respond(CreateCatch(req[s]), 500, NullOrder, InternalError)]
  /\ UNCHANGED <<stock, orders, fraudEnabled, reversals>>

----------------------------------------------------------------------------
(* PATCH /:id/status : update order status *)

\* prisma.order.findUnique({ where: { id }, include: { items: true } })
findUnique(id) ==
  IF id \in 1..Len(orders) THEN orders[id] ELSE NullOrder

\* variant: a transition to the status the order already has is let through
TransitionCheck_SelfAllowed(from, to) ==
  IF from \notin DOMAIN VALID_STATUS_TRANSITIONS THEN "throws"
  ELSE IF to \in VALID_STATUS_TRANSITIONS[from] \/ to = from THEN "valid"
  ELSE "invalid"

\* VALID_STATUS_TRANSITIONS[from].includes(to): "throws" when the table has no
\* entry for from (the lookup is undefined and .includes raises a TypeError)
TransitionCheck(from, to) ==
  IF from \notin DOMAIN VALID_STATUS_TRANSITIONS THEN "throws"
  ELSE IF to \in VALID_STATUS_TRANSITIONS[from] THEN "valid"
  ELSE "invalid"

InvalidStatusTransitionError(from, to) ==
  Error("InvalidStatusTransitionError", 0, from, to)
OrderNotFoundError(id) == Error("OrderNotFoundError", 0, "", "")

\* status transactions: committed, and validated but not yet run
StatusChanges(id) ==
  Cardinality({i \in 1..Len(events[id]) : events[id][i].type = "STATUS_CHANGE"})

RECURSIVE TotalStatusChanges(_)
TotalStatusChanges(n) ==
  IF n = 0 THEN 0 ELSE TotalStatusChanges(n - 1) + StatusChanges(n)

InFlightUpdates == Cardinality({s \in Slots : req[s].pc = "updateTx"})

\* may one more status update go on to its transaction
UpdateBudget(id, status, cap) ==
  (id \in 1..Len(orders) /\ TransitionCheck(orders[id].status, status) = "valid")
    => TotalStatusChanges(Len(orders)) + InFlightUpdates < cap

\* logger.error(error, 'Order status update failed') in the catch of the handler
UpdateCatch(r) == [r EXCEPT !.log = Append(@, "Order status update failed")]

\* variant: a missing order is answered like an invalid transition
UpdateErrorStatus_Conflated(error) ==
  IF error.name \in {"OrderNotFoundError", "InvalidStatusTransitionError"} THEN 400
  ELSE 500

\* the status code the catch of the handler answers an error with
UpdateErrorStatus(error) ==
  IF error.name = "OrderNotFoundError" THEN 404
  ELSE IF error.name = "InvalidStatusTransitionError" THEN 400
  ELSE 500

\* the answer of the catch of the handler
UpdateFailure(r, error) ==
  Respond(UpdateCatch(r), UpdateErrorStatus(error), NullOrder, error)

\* load the order and validate the transition
UpdateStart(s, userId, id, status, trackingNumber) ==
  /\ req[s].pc \in {"idle", "done"}
  /\ LET r == [IdleSlot EXCEPT !.op = "update", !.userId = userId, !.id = id,
                               !.status = status, !.trackingNumber = trackingNumber]
         currentOrder == findUnique(id)
         check == TransitionCheck(currentOrder.status, status)
     IN req' = [req EXCEPT ![s] =
                  IF currentOrder = NullOrder
                    THEN UpdateFailure(r, OrderNotFoundError(id))
                  ELSE IF check = "throws"
                    THEN UpdateFailure(r, InternalError)
                  ELSE IF check = "invalid"
                    THEN UpdateFailure(r, InvalidStatusTransitionError(currentOrder.status,
                                                                       status))
                  ELSE [r EXCEPT !.pc = "updateTx", !.currentOrder = currentOrder]]
  /\ UNCHANGED <<stock, orders, events, fraudEnabled, reversals>>

\* does the transaction give the items' stock back
RevertsStock(currentStatus, status) ==
  status = "CANCELLED" /\ currentStatus \in {"PENDING", "PROCESSING"}

\* variant: a product listed by several items is given back once
RECURSIVE RevertStock_Distinct(_, _, _)
RevertStock_Distinct(st, items, n) ==
  IF n = 0 THEN st
  ELSE LET prev == RevertStock_Distinct(st, items, n - 1)
       IN IF \E i \in 1..(n - 1) : items[i].productId = items[n].productId
            THEN prev
            ELSE [prev EXCEPT ![items[n].productId] = @ + items[n].quantity]

\* tx.product.update({ where: { id }, data: { stock: { increment: quantity } } })
\* for each item of the loaded order
RECURSIVE RevertStock(_, _, _)
RevertStock(st, items, n) ==
  IF n = 0 THEN st
  ELSE LET prev == RevertStock(st, items, n - 1)
       IN [prev EXCEPT ![items[n].productId] = @ + items[n].quantity]

\* variant: the update writes the whole row anew and loses the total
UpdatedOrder_ZeroTotal(row, status, trackingNumber) ==
  [row EXCEPT !.status = status,
              !.total = 0,
              !.trackingNumber = IF trackingNumber # NoTracking
                                   THEN trackingNumber ELSE @]

\* variant: an order moved to PROCESSING is put under review instead
UpdatedOrder_ToReview(row, status, trackingNumber) ==
  [row EXCEPT !.status = IF status = "PROCESSING" THEN "PENDING_REVIEW" ELSE status,
              !.trackingNumber = IF trackingNumber # NoTracking
                                   THEN trackingNumber ELSE @]

\* data: { status, ...(trackingNumber && { trackingNumber }) }
UpdatedOrder(row, status, trackingNumber) ==
  [row EXCEPT !.status = status,
              !.trackingNumber = IF trackingNumber # NoTracking
                                   THEN trackingNumber ELSE @]

\* variant: the event records the new status as the status it came from
StatusChangeEvent_NoFrom(orderId, userId, from, to, trackingNumber) ==
  [orderId |-> orderId, type |-> "STATUS_CHANGE", userId |-> userId,
   payload |-> [from |-> to, to |-> to, trackingNumber |-> trackingNumber]]

StatusChangeEvent(orderId, userId, from, to, trackingNumber) ==
  [orderId |-> orderId, type |-> "STATUS_CHANGE", userId |-> userId,
   payload |-> [from |-> from, to |-> to, trackingNumber |-> trackingNumber]]

\* the writes of the status transaction in program order, and "none"
TxSteps == {"increment", "status", "event"}
TxAlwaysCommits == {"none"}
TxMayFail == TxSteps \cup {"none"}

\* the store after the writes of the status transaction up to, not including,
\* the step named by upTo ("none": all of them)
UpdateWrites(r, upTo) ==
  LET currentOrder == r.currentOrder
      reverts == RevertsStock(currentOrder.status, r.status)
      order == UpdatedOrder(orders[r.id], r.status, r.trackingNumber)
      doIncrement == reverts /\ upTo # "increment"
      doStatus == upTo \notin {"increment", "status"}
      doEvent == upTo = "none"
  IN [order |-> order,
      stock |-> IF doIncrement
                  THEN RevertStock(stock, currentOrder.items, Len(currentOrder.items))
                  ELSE stock,
      reversals |-> IF doIncrement THEN [reversals EXCEPT ![r.id] = @ + 1]
                                   ELSE reversals,
      orders |-> IF doStatus THEN [orders EXCEPT ![r.id] = order] ELSE orders,
      events |-> IF doEvent
                   THEN [events EXCEPT ![r.id] =
                           AppendEvent(@, StatusChangeEvent(r.id, r.userId,
                                                            currentOrder.status, r.status,
                                                            r.trackingNumber))]
                   ELSE events]

\* does the write named by failedStep run in this transaction and fail
TxFails(r, failedStep) ==
  /\ failedStep \in TxSteps
  /\ failedStep = "increment" => RevertsStock(r.currentOrder.status, r.status)

\* variant: the writes are not in a transaction, those made before the failed
\* one stay
UpdateTransaction_NoRollback(r, failedStep) ==
  LET done == UpdateWrites(r, failedStep)
  IN [committed |-> ~TxFails(r, failedStep), order |-> done.order,
      stock |-> done.stock, reversals |-> done.reversals,
      orders |-> done.orders, events |-> done.events]

\* what prisma.$transaction leaves in the store: all the writes when every one
\* succeeds, the store as it was when one fails
UpdateTransaction(r, failedStep) ==
  LET done == UpdateWrites(r, "none")
  IN IF TxFails(r, failedStep)
       THEN [committed |-> FALSE, order |-> NullOrder,
             stock |-> stock, reversals |-> reversals,
             orders |-> orders, events |-> events]
       ELSE [committed |-> TRUE, order |-> done.order,
             stock |-> done.stock, reversals |-> done.reversals,
             orders |-> done.orders, events |-> done.events]

\* the status transaction: stock reversal, status write, audit event
UpdateTx(s, failedStep) ==
  /\ req[s].op = "update" /\ req[s].pc = "updateTx"
  /\ LET r == req[s]
         tx == UpdateTransaction(r, failedStep)
     IN /\ stock' = tx.stock
        /\ reversals' = tx.reversals
        /\ orders' = tx.orders
        /\ events' = tx.events
        /\ req' = [req EXCEPT ![s] =
                     IF ~tx.committed
                       THEN UpdateFailure(r, InternalError)
                     ELSE IF r.status = "SHIPPED" /\ r.trackingNumber # NoTracking
                       THEN [r EXCEPT !.pc = "notify", !.order = tx.order]
                       ELSE Respond([r EXCEPT !.order = tx.order], 200, tx.order, NoError)]
  /\ UNCHANGED fraudEnabled

\* variant: the failure of the webhook call is thrown on to the handler
notifyShippingProvider_Rethrows(delivered) ==
  [threw |-> ~delivered,
   log   |-> IF delivered THEN <<>> ELSE <<"Shipping notification failed">>]

\* notifyShippingProvider: the webhook call, whose failure is caught and logged
notifyShippingProvider(delivered) ==
  [threw |-> FALSE,
   log   |-> IF delivered THEN <<>> ELSE <<"Shipping notification failed">>]

\* the shipping notification, then the response
NotifyShipping(s, delivered) ==
  /\ req[s].op = "update" /\ req[s].pc = "notify"
  /\ delivered \in BOOLEAN
  /\ LET call == notifyShippingProvider(delivered)
         r == [req[s] EXCEPT !.log = @ \o call.log]
     IN req' = [req EXCEPT ![s] =
                  IF call.threw
                    THEN UpdateFailure(r, InternalError)
                    ELSE Respond(r, 200, r.order, NoError)]
  /\ UNCHANGED <<stock, orders, events, fraudEnabled, reversals>>

----------------------------------------------------------------------------
(* GET /:id : get order by id *)

AccessDeniedError == Error("Access denied", 0, "", "")

\* variant: the ownership check is left out
MayRead_Anyone(order, userId, isAdmin) == TRUE

\* the negation of order.userId !== userId && !isAdmin
MayRead(order, userId, isAdmin) ==
  ~(order.userId # userId /\ ~isAdmin)

\* the whole handler: load the order, then answer 404, 403 or the order
GetOrder(s, userId, role, id) ==
  /\ req[s].pc \in {"idle", "done"}
  /\ LET r == [IdleSlot EXCEPT !.op = "get", !.userId = userId, !.role = role,
                               !.id = id]
         isAdmin == role = "admin"
         order == findUnique(id)
     IN req' = [req EXCEPT ![s] =
                  IF order = NullOrder
                    THEN Respond([r EXCEPT !.log = <<"Order details fetch failed">>],
                                 404, NullOrder, OrderNotFoundError(id))
                  ELSE IF ~MayRead(order, userId, isAdmin)
                    THEN Respond(r, 403, NullOrder, AccessDeniedError)
                  ELSE Respond(r, 200, order, NoError)]
  /\ UNCHANGED <<stock, orders, events, fraudEnabled, reversals>>

----------------------------------------------------------------------------

\* one step of one request, with the requests' inputs drawn from the given sets
CreateStep(slots, users, keys, carts, writes) ==
  \E s \in slots :
    \/ \E userId \in users, key \in keys : CreateStart(s, userId, key)
    \/ \E items \in carts : CreateTx(s, items)
    \/ \E response \in FraudResponses : FraudCheck(s, response)
    \/ \E written \in writes : FlagStatus(s, written)
    \/ \E written \in writes : FlagEvent(s, written)

UpdateStep(slots, bodies, cap, failures) ==
  \E s \in slots :
    \/ \E userId \in Managers, id \in 1..(MaxOrders + 1), body \in bodies :
         /\ UpdateBudget(id, body.status, cap)
         /\ UpdateStart(s, userId, id, body.status, body.trackingNumber)
    \/ \E failedStep \in failures : UpdateTx(s, failedStep)
    \/ \E delivered \in BOOLEAN : NotifyShipping(s, delivered)

ReadStep(slots, readers) ==
  \E s \in slots : \E reader \in readers, id \in 1..(MaxOrders + 1) :
    GetOrder(s, reader.id, reader.role, id)

\* the whole program: concurrent creations and status updates
Next ==
  \/ CreateStep(Slots, SpecUsers, SpecKeys, SpecCarts, StoreUp)
  \/ UpdateStep(Slots, SpecBodies, MaxUpdates, TxAlwaysCommits)

Spec == Init /\ [][Next]_vars

\* concurrent creations only
NextCreate == CreateStep(Slots, SpecUsers, Keys \cup {NoKey}, Carts, StoreUp)

SpecCreate == Init /\ [][NextCreate]_vars

\* concurrent creations whose post-commit writes may be rejected by the store
NextHook == CreateStep(Slots, SpecUsers, SpecKeys, SpecCarts, StoreMayFail)

SpecHook == Init /\ [][NextHook]_vars

\* creations in one slot racing with status updates in another
NextPair ==
  \/ CreateStep({1}, SpecUsers, SpecKeys, SpecCarts, StoreUp)
  \/ UpdateStep({2}, SeqBodies, MaxUpdates, TxAlwaysCommits)

SpecPair == Init /\ [][NextPair]_vars

\* creations in one slot racing with status updates in another whose
\* transaction may fail at any of its writes
NextTxFail ==
  \/ CreateStep({1}, SpecUsers, SpecKeys, SpecCarts, StoreUp)
  \/ UpdateStep({2}, SeqBodies, MaxUpdates, TxMayFail)

SpecTxFail == Init /\ [][NextTxFail]_vars

\* one request at a time: creations of every cart, then updates
NextCancel ==
  \/ CreateStep({1}, SpecUsers, SpecKeys, CancelCarts, StoreUp)
  \/ UpdateStep({1}, SeqBodies, MaxUpdates, TxAlwaysCommits)

SpecCancel == Init /\ [][NextCancel]_vars

\* creations of two users, one after the other, with and without a key
NextReplay == CreateStep({1}, Users, Keys \cup {NoKey}, SpecCarts, StoreUp)

SpecReplay == Init /\ [][NextReplay]_vars

\* concurrent creations under the scheduling of the runtime: a handler that
\* can take its next step takes it, except that the fraud service answers in
\* its own time or never; that requests arrive is not assumed
HandlerStep(s) ==
  \/ \E items \in SpecCarts : CreateTx(s, items)
  \/ \E written \in StoreUp : FlagStatus(s, written)
  \/ \E written \in StoreUp : FlagEvent(s, written)

Fairness == \A s \in Slots : WF_vars(HandlerStep(s))

NextLive == CreateStep(Slots, SpecUsers, SpecKeys, SpecCarts, StoreUp)

SpecLive == Init /\ [][NextLive]_vars /\ Fairness

\* the same, with a fraud service that always answers in the end
FraudServiceAnswers ==
  \A s \in Slots : WF_vars(\E response \in FraudResponses : FraudCheck(s, response))

SpecLiveAnswered == SpecLive /\ FraudServiceAnswers

\* creations by two users in one slot and reads of their orders in another
NextRead ==
  \/ CreateStep({1}, Users, SpecKeys, SpecCarts, StoreUp)
  \/ ReadStep({2}, Readers)

SpecRead == Init /\ [][NextRead]_vars

\* one request at a time
NextSeq ==
  \/ CreateStep({1}, SeqUsers, Keys \cup {NoKey}, SeqCarts, StoreUp)
  \/ UpdateStep({1}, SeqBodies, SeqUpdates, TxAlwaysCommits)

SpecSeq == Init /\ [][NextSeq]_vars

----------------------------------------------------------------------------
(* Properties *)

OrderIds == 1..Len(orders)

TypeOK ==
  /\ \A p \in Products : stock[p] \in Int
  /\ Len(orders) <= MaxOrders
  /\ Len(events) = Len(orders) /\ Len(reversals) = Len(orders)

RECURSIVE Demand(_, _, _)
\* the quantity of product p that the first n items ask for
Demand(items, p, n) ==
  IF n = 0 THEN 0
  ELSE Demand(items, p, n - 1) + (IF items[n].productId = p THEN items[n].quantity ELSE 0)

RECURSIVE OrderedQuantity(_, _, _)
\* the quantity of product p in the items of the first n rows of os
OrderedQuantity(os, p, n) ==
  IF n = 0 THEN 0
  ELSE OrderedQuantity(os, p, n - 1) + Demand(os[n].items, p, Len(os[n].items))

OrdersWithKey(os, key) == {i \in 1..Len(os) : os[i].idempotencyKey = key}

TerminalStatus == {"CANCELLED", "REFUNDED"}

\* the step runs the creation transaction of the request in slot s
IsCreateTxStep(s) == req[s].pc = "createTx" /\ req'[s].pc # "createTx"
\* the step takes a new request into slot s
IsArrival(s, op) ==
  req[s].pc \in {"idle", "done"} /\ req'[s] # req[s] /\ req'[s].op = op

IsInsufficientStock(r) ==
  /\ r.op = "create" /\ r.pc = "done" /\ r.code = 409
  /\ r.error.name = "InsufficientStockError"

\* C1: for every product, the stock is never below 0 and never above its
\* initial value, under every interleaving of creations and cancellations.
C1_StockWithinInitial ==
  \A p \in Products : stock[p] >= 0 /\ stock[p] <= InitStock[p]

\* C2: of two concurrent creations whose combined quantity exceeds the stock,
\* never both succeed: a creation transaction commits exactly when the whole
\* cart fits the stock at that instant (so the first of two that each fit
\* alone commits), the other fails with InsufficientStock naming a product of
\* its cart and persists no order, and the persisted orders never add up to
\* more than the stock there was.
C2_Step(s) ==
  LET committed == Len(orders') = Len(orders) + 1
      cart == IF committed THEN orders'[Len(orders')].items ELSE req'[s].items
      fits == \A p \in Products : Demand(cart, p, Len(cart)) <= stock[p]
      keyFree == OrdersWithKey(orders, req[s].idempotencyKey) = {}
                   \/ req[s].idempotencyKey = NoKey
  IN /\ committed => fits
     /\ (fits /\ keyFree) => committed
     /\ (~fits /\ keyFree) =>
          /\ IsInsufficientStock(req'[s])
          /\ \E i \in 1..Len(cart) :
               req'[s].error = InsufficientStockError(cart[i].productId)
          /\ orders' = orders

C2_NoOversell ==
  [][ /\ \A s \in Slots : IsCreateTxStep(s) => C2_Step(s)
      /\ \A p \in Products :
           OrderedQuantity(orders', p, Len(orders')) <= InitStock[p] ]_vars

\* two creations in flight at once wanted the same product: one has committed
\* and is still running its fraud hook, the other has failed for that product
C2_Witness ==
  \E s1, s2 \in Slots : \E p \in Products :
    /\ s1 # s2
    /\ req[s1].op = "create" /\ req[s1].pc = "fraud"
    /\ Demand(req[s1].order.items, p, Len(req[s1].order.items)) >= 1
    /\ Demand(req[s1].order.items, p, Len(req[s1].order.items)) <= InitStock[p]
    /\ IsInsufficientStock(req[s2])
    /\ req[s2].error = InsufficientStockError(p)
    /\ Len(req[s2].items) = 1
    /\ req[s2].items[1].quantity <= InitStock[p]
    /\ Len(orders) = 1

\* C3: a creation that fails with InsufficientStock leaves no order, no item,
\* no event and no stock decrement behind, also for the items of the cart
\* whose decrement had been applied inside the transaction.
C3_FailedCreationLeavesNothing ==
  [][ \A s \in Slots :
        (IsCreateTxStep(s) /\ IsInsufficientStock(req'[s]))
          => /\ orders' = orders
             /\ events' = events
             /\ stock' = stock ]_vars

\* a failed cart of two items whose first item fitted the stock and whose
\* second item is the one the error names
C3_Witness ==
  \E s \in Slots :
    /\ IsInsufficientStock(req[s])
    /\ Len(req[s].items) >= 2
    /\ stock[req[s].items[1].productId] >= req[s].items[1].quantity
    /\ req[s].error = InsufficientStockError(req[s].items[2].productId)

\* C4: a creation that arrives with an idempotency key an order already has
\* never goes on to create: it answers with that order and changes nothing in
\* the store, and there is never more than one order with the key.
C4_Step(s) ==
  /\ stock' = stock /\ orders' = orders /\ events' = events
  /\ req'[s].pc = "createTx" =>
       \/ req'[s].idempotencyKey = NoKey
       \/ OrdersWithKey(orders, req'[s].idempotencyKey) = {}
  /\ req'[s].pc = "done" =>
       /\ req'[s].code = 409
       /\ req'[s].body.id \in OrderIds
       /\ req'[s].body = orders[req'[s].body.id]
       /\ req'[s].body.idempotencyKey \in Keys

C4_IdempotentReplay ==
  [][ /\ \A s \in Slots : IsArrival(s, "create") => C4_Step(s)
      /\ \A key \in Keys : Cardinality(OrdersWithKey(orders', key)) <= 1 ]_vars

\* the second call has returned the one order that has the key
C4_Witness ==
  \E s \in Slots :
    /\ req[s].op = "create" /\ req[s].pc = "done" /\ req[s].code = 409
    /\ req[s].body # NullOrder
    /\ req[s].body.idempotencyKey \in Keys
    /\ Cardinality(OrdersWithKey(orders, req[s].body.idempotencyKey)) = 1

\* C5: under every interleaving of creations there is at most one order per
\* idempotency key, and the stock taken is exactly the quantities of the
\* persisted orders: no key has its stock decremented a second time.
C5_OneOrderPerKey ==
  /\ \A key \in Keys : Cardinality(OrdersWithKey(orders, key)) <= 1
  /\ \A p \in Products :
       InitStock[p] - stock[p] = OrderedQuantity(orders, p, Len(orders))

\* two creations with the same key were both past the idempotency check: one
\* has its order, the other was refused by the store
C5_Witness ==
  \E s \in Slots : \E key \in Keys :
    /\ req[s].op = "create" /\ req[s].pc = "done" /\ req[s].code = 500
    /\ Cardinality(OrdersWithKey(orders, key)) = 1

AllowedTargets(from) ==
  IF from \in DOMAIN VALID_STATUS_TRANSITIONS THEN VALID_STATUS_TRANSITIONS[from] ELSE {}

\* C6: a status update whose (from, to) is not in the transition table fails
\* and changes nothing: an update goes on to its transaction only with a pair
\* of the table, the load-and-validate step never writes, a refused update is
\* answered with an error, and every status change an update makes is a pair
\* of the table.
C6_Step(s) ==
  /\ stock' = stock /\ orders' = orders /\ events' = events
  /\ req'[s].pc = "updateTx" =>
       /\ req'[s].id \in OrderIds
       /\ req'[s].status \in AllowedTargets(orders[req'[s].id].status)
  /\ req'[s].pc = "done" => req'[s].code \in {400, 404, 500}

C6_InvalidTransitionRejected ==
  [][ /\ \A s \in Slots : IsArrival(s, "update") => C6_Step(s)
      /\ \A id \in OrderIds :
           orders'[id].status # orders[id].status =>
             \/ orders'[id].status \in AllowedTargets(orders[id].status)
             \/ orders[id].status = "PENDING" /\ orders'[id].status = "PENDING_REVIEW"
    ]_vars

\* an update of a REFUNDED order was refused
C6_Witness ==
  \E s \in Slots : \E id \in OrderIds :
    /\ req[s].op = "update" /\ req[s].pc = "done" /\ req[s].code = 400
    /\ orders[id].status = "REFUNDED"
    /\ req[s].error = InvalidStatusTransitionError("REFUNDED", "PENDING")

StatusChangeEvents(id) ==
  {i \in 1..Len(events[id]) : events[id][i].type = "STATUS_CHANGE"}

\* C7: two status updates of one order never both succeed from the same
\* starting status: no order has two STATUS_CHANGE events with the same from.
C7_NoTwoUpdatesFromSameStatus ==
  \A id \in OrderIds : \A i, j \in StatusChangeEvents(id) :
    i # j => events[id][i].payload.from # events[id][j].payload.from

\* C8: over an order's lifetime the stock of its items is given back at most
\* once.
C8_StockRevertedOnce ==
  \A id \in OrderIds : reversals[id] <= 1

\* C9: once CANCELLED or REFUNDED, an order never changes status again.
C9_TerminalStatusIsFinal ==
  [][ \A id \in OrderIds :
        orders[id].status \in TerminalStatus => orders'[id].status = orders[id].status
    ]_vars

RECURSIVE SumOfSubtotals(_, _)
SumOfSubtotals(items, n) ==
  IF n = 0 THEN 0 ELSE SumOfSubtotals(items, n - 1) + items[n].subtotal

\* C10: the total of every persisted order is the sum of the subtotals of its
\* items, and every subtotal is unit price times quantity.
C10_TotalIsSumOfSubtotals ==
  \A id \in OrderIds :
    /\ orders[id].total = SumOfSubtotals(orders[id].items, Len(orders[id].items))
    /\ \A i \in 1..Len(orders[id].items) :
         orders[id].items[i].subtotal
           = orders[id].items[i].price * orders[id].items[i].quantity

\* an order with an item of a quantity above 1, whose subtotal is not its price
C10_Witness ==
  \E id \in OrderIds : \E i \in 1..Len(orders[id].items) :
    /\ orders[id].items[i].quantity > 1
    /\ orders[id].items[i].subtotal > orders[id].items[i].price
    /\ orders[id].total >= orders[id].items[i].subtotal

\* C11: a read of an order answers with the order only when the requester
\* owns it or is an admin; for every other requester of an existing order the
\* answer is 403 without order data, and a read never writes.
C11_Step(s) ==
  LET r == req'[s]
  IN /\ stock' = stock /\ orders' = orders /\ events' = events
     /\ r.pc = "done"
     /\ r.code = 200 =>
          /\ r.id \in OrderIds
          /\ r.body = orders[r.id]
          /\ orders[r.id].userId = r.userId \/ r.role = "admin"
     /\ (r.id \in OrderIds /\ orders[r.id].userId # r.userId /\ r.role # "admin") =>
          r.code = 403 /\ r.error = AccessDeniedError
     /\ r.code # 200 => r.body = NullOrder

C11_OwnerOrAdminReads ==
  [][ \A s \in Slots : IsArrival(s, "get") => C11_Step(s) ]_vars

\* a customer who does not own an existing order asked for it and was denied
C11_Witness ==
  \E s \in Slots :
    /\ req[s].op = "get" /\ req[s].pc = "done" /\ req[s].code = 403
    /\ req[s].id \in OrderIds
    /\ req[s].role = "customer"
    /\ orders[req[s].id].userId # req[s].userId
    /\ req[s].body = NullOrder

\* the request in slot s has logged that its fraud-scoring call failed
FraudCallFailed(r) ==
  \E i \in 1..Len(r.log) : r.log[i] = "Fraud check failed"

FlaggedEvents(id) ==
  {i \in 1..Len(events[id]) : events[id][i].type = "FRAUD_FLAGGED"}

\* the step ends the fraud-scoring call of the creation in slot s
IsFraudStep(s) == req[s].op = "create" /\ req[s].pc = "fraud" /\ req'[s].pc # "fraud"

\* C12: when the fraud-scoring call of a committed creation fails, the failure
\* is logged and the creation still answers 201 with the created order: the
\* step writes nothing, the order is persisted with status PENDING and has no
\* FRAUD_FLAGGED event, and the request never goes on to flag the order.
C12_Step(s) ==
  LET r == req'[s]
  IN /\ r.pc = "done" /\ r.code = 201 /\ r.error = NoError
     /\ r.body = req[s].order
     /\ r.body.id \in OrderIds
     /\ stock' = stock /\ orders' = orders /\ events' = events
     /\ orders'[r.body.id].status = "PENDING"
     /\ \A i \in 1..Len(events'[r.body.id]) :
          events'[r.body.id][i].type # "FRAUD_FLAGGED"

C12_FraudCheckFailsOpen ==
  [][ \A s \in Slots :
        /\ (IsFraudStep(s) /\ FraudCallFailed(req'[s])) => C12_Step(s)
        /\ req'[s].pc \in {"flagStatus", "flagEvent"} => ~FraudCallFailed(req'[s])
    ]_vars

\* a creation whose fraud-scoring call failed has answered 201 with its order,
\* which is PENDING and has its CREATED event only
C12_Witness ==
  \E s \in Slots :
    /\ req[s].op = "create" /\ req[s].pc = "done" /\ req[s].code = 201
    /\ FraudCallFailed(req[s])
    /\ req[s].body.id \in OrderIds
    /\ orders[req[s].body.id].status = "PENDING"
    /\ Len(events[req[s].body.id]) = 1
    /\ events[req[s].body.id][1].type = "CREATED"

\* the step is one of the post-commit steps of the creation in slot s
IsPostCommitStep(s) ==
  /\ req[s].op = "create" /\ req[s].pc \in {"fraud", "flagStatus", "flagEvent"}
  /\ req'[s] # req[s]

\* C13: after its transaction has committed, whatever a post-commit step of a
\* creation does (the fraud scoring, the write of the review status, the
\* insert of the FRAUD_FLAGGED event), the creation is never answered as
\* failed: when it answers, it answers 201 with the order; and the committed
\* order and the stock it took stay.
C13_PostCommitNeverFails ==
  [][ \A s \in Slots :
        IsPostCommitStep(s) =>
          /\ req'[s].pc = "done" =>
               req'[s].code = 201 /\ req'[s].body = req[s].order
          /\ stock' = stock
          /\ Len(orders') = Len(orders)
          /\ orders'[req[s].order.id].items = req[s].order.items
    ]_vars

\* the request has logged that its shipping notification failed
NotificationFailed(r) ==
  \E i \in 1..Len(r.log) : r.log[i] = "Shipping notification failed"

LastEvent(id) == events[id][Len(events[id])]

\* the step ends the shipping notification of the update in slot s
IsNotifyStep(s) == req[s].op = "update" /\ req[s].pc = "notify" /\ req'[s].pc # "notify"

\* C14: the shipping notification that follows a committed transition to
\* SHIPPED never fails or undoes the transition, whether or not the provider
\* was reached: the step writes nothing, the order stays SHIPPED with its
\* STATUS_CHANGE event, and the answer is 200 with the updated order.
C14_Step(s) ==
  LET r == req'[s]
  IN /\ r.pc = "done" /\ r.code = 200 /\ r.error = NoError
     /\ r.body = req[s].order
     /\ r.body.status = "SHIPPED" /\ r.body.trackingNumber # NoTracking
     /\ stock' = stock /\ orders' = orders /\ events' = events
     /\ orders'[r.body.id] = r.body
     /\ events'[r.body.id][Len(events'[r.body.id])].type = "STATUS_CHANGE"
     /\ events'[r.body.id][Len(events'[r.body.id])].payload.to = "SHIPPED"

C14_NotificationFailureNotFatal ==
  [][ \A s \in Slots : IsNotifyStep(s) => C14_Step(s) ]_vars

\* an update to SHIPPED whose notification failed has answered 200 with the
\* order, which is SHIPPED and has the event of the transition
C14_Witness ==
  \E s \in Slots :
    /\ req[s].op = "update" /\ req[s].pc = "done" /\ req[s].code = 200
    /\ NotificationFailed(req[s])
    /\ req[s].body.id \in OrderIds
    /\ orders[req[s].body.id].status = "SHIPPED"
    /\ req[s].body = orders[req[s].body.id]
    /\ LastEvent(req[s].body.id).type = "STATUS_CHANGE"
    /\ LastEvent(req[s].body.id).payload.to = "SHIPPED"

\* the step runs the status transaction of the update in slot s
IsUpdateTxStep(s) ==
  req[s].op = "update" /\ req[s].pc = "updateTx" /\ req'[s].pc # "updateTx"

\* the step is the review-status write of the fraud hook for order id
IsFlagStatusStep(id) ==
  \E s \in Slots :
    /\ req[s].op = "create" /\ req[s].pc = "flagStatus" /\ req[s].order.id = id
    /\ req'[s].pc = "flagEvent"

\* C15: no status update puts an order into PENDING_REVIEW: the transaction
\* of an update never leaves its order in that status, a new order starts as
\* PENDING, and an order's status becomes PENDING_REVIEW only in the review
\* write of the fraud hook of the creation of that order.
C15_ReviewOnlyByFraudHook ==
  [][ /\ \A s \in Slots :
           IsUpdateTxStep(s) =>
             /\ req[s].status # "PENDING_REVIEW"
             /\ orders'[req[s].id].status # "PENDING_REVIEW"
      /\ \A id \in (Len(orders) + 1)..Len(orders') : orders'[id].status = "PENDING"
      /\ \A id \in OrderIds :
           (orders'[id].status = "PENDING_REVIEW" /\ orders[id].status # "PENDING_REVIEW")
             => IsFlagStatusStep(id)
    ]_vars

\* one order has been both flagged by the fraud hook and moved by an update
C15_Witness ==
  \E id \in OrderIds :
    /\ FlaggedEvents(id) # {}
    /\ StatusChangeEvents(id) # {}

\* C16: the event log only grows at its end: in every step every order keeps
\* the events it had, unchanged and in their order, as a prefix of its events
\* after the step, and no order's log disappears.
C16_EventsAppendOnly ==
  [][ /\ Len(events') >= Len(events)
      /\ \A id \in 1..Len(events) :
           /\ Len(events'[id]) >= Len(events[id])
           /\ SubSeq(events'[id], 1, Len(events[id])) = events[id]
    ]_vars

\* an order whose log has its CREATED event and at least two later events
C16_Witness ==
  \E id \in OrderIds :
    /\ Len(events[id]) >= 3
    /\ events[id][1].type = "CREATED"
    /\ \E id2 \in OrderIds : id2 # id /\ Len(events[id2]) >= 1

\* C17: a status update of an order id that does not exist is answered 404
\* with OrderNotFound, never with the 400 of an invalid transition, and writes
\* nothing; 404 is answered for no other reason.
C17_Step(s) ==
  LET r == req'[s]
  IN /\ r.id \notin OrderIds =>
          /\ r.pc = "done" /\ r.code = 404
          /\ r.error = OrderNotFoundError(r.id)
          /\ r.body = NullOrder
          /\ stock' = stock /\ orders' = orders /\ events' = events
     /\ (r.pc = "done" /\ r.code = 404) => r.id \notin OrderIds
     /\ r.error.name = "InvalidStatusTransitionError" =>
          r.code = 400 /\ r.id \in OrderIds

C17_MissingOrderNotFound ==
  [][ \A s \in Slots : IsArrival(s, "update") => C17_Step(s) ]_vars

\* with an order in the store, an update of an id that no order has was
\* answered 404
C17_Witness ==
  \E s \in Slots :
    /\ req[s].op = "update" /\ req[s].pc = "done" /\ req[s].code = 404
    /\ req[s].error = OrderNotFoundError(req[s].id)
    /\ OrderIds # {}
    /\ req[s].id \notin OrderIds

CreatedEvents(evs, id) ==
  {i \in 1..Len(evs[id]) : evs[id][i].type = "CREATED"}

\* C18: a creation that succeeds commits in one step a new order with status
\* PENDING and its items, a decrement of each product's stock by exactly the
\* quantity ordered, and one CREATED event with status PENDING and the
\* order's total; every other step adds none of these, so in every state each
\* order has exactly one CREATED event, carrying its total, and the stock
\* taken is the quantity of the orders there are.
C18_Step ==
  LET n == Len(orders')
      o == orders'[n]
  IN /\ n = Len(orders) + 1
     /\ orders' = Append(orders, o)
     /\ o.id = n /\ o.status = "PENDING"
     /\ o.total = SumOfSubtotals(o.items, Len(o.items))
     /\ \A p \in Products : stock'[p] = stock[p] - Demand(o.items, p, Len(o.items))
     /\ Len(events') = n
     /\ \A id \in 1..Len(events) : events'[id] = events[id]
     /\ Len(events'[n]) = 1
     /\ events'[n][1].type = "CREATED" /\ events'[n][1].orderId = n
     /\ events'[n][1].userId = o.userId
     /\ events'[n][1].payload = [status |-> "PENDING", total |-> o.total]

C18_AtomicCreation ==
  [][ /\ orders' # orders \/ stock' # stock \/ Len(events') # Len(events)
           => \/ C18_Step
              \/ /\ Len(orders') = Len(orders) /\ stock' = stock
                 /\ Len(events') = Len(events)
      /\ Len(events') = Len(orders')
      /\ \A id \in 1..Len(orders') :
           /\ CreatedEvents(events', id) = {1}
           /\ events'[id][1].payload.total = orders'[id].total
      /\ \A p \in Products :
           InitStock[p] - stock'[p] = OrderedQuantity(orders', p, Len(orders'))
    ]_vars

\* an order of two items of two products is there with its CREATED event and
\* the stock of both products taken
C18_Witness ==
  \E id \in OrderIds :
    /\ Len(orders[id].items) = 2
    /\ orders[id].items[1].productId # orders[id].items[2].productId
    /\ orders[id].total > 0
    /\ events[id][1] = CreatedEvent(id, orders[id].userId, orders[id].total)
    /\ \A i \in 1..2 :
         stock[orders[id].items[i].productId] < InitStock[orders[id].items[i].productId]

\* C19: an update of an existing order whose (from, to) is in the transition
\* table is not refused, and its transaction, in one step, sets the order's
\* status to the target and appends exactly one STATUS_CHANGE event that
\* records the status the order had and the target; then it answers 200 with
\* the updated order.
C19_Arrival(s) ==
  LET r == req'[s]
  IN r.pc = "done" =>
       \/ r.id \notin OrderIds
       \/ /\ r.code = 400 /\ r.error.from = orders[r.id].status
          /\ r.error.to \notin AllowedTargets(orders[r.id].status)
       \/ r.code = 500 /\ orders[r.id].status \notin DOMAIN VALID_STATUS_TRANSITIONS

C19_Step(s) ==
  LET id == req[s].id
      from == orders[id].status
      to == req[s].status
      last == events'[id][Len(events'[id])]
  IN /\ to \in AllowedTargets(from)
     /\ orders'[id].status = to
     /\ \A other \in OrderIds \ {id} :
          orders'[other] = orders[other] /\ events'[other] = events[other]
     /\ Len(events'[id]) = Len(events[id]) + 1
     /\ SubSeq(events'[id], 1, Len(events[id])) = events[id]
     /\ last.type = "STATUS_CHANGE" /\ last.orderId = id
     /\ last.payload.from = from /\ last.payload.to = to
     /\ req'[s].pc = "done" => req'[s].code = 200 /\ req'[s].body = orders'[id]
     /\ req'[s].pc # "done" => req'[s].pc = "notify" /\ req'[s].order = orders'[id]

C19_ValidTransitionSucceeds ==
  [][ \A s \in Slots :
        /\ IsArrival(s, "update") => C19_Arrival(s)
        /\ IsUpdateTxStep(s) => C19_Step(s)
    ]_vars

\* an order has gone through the table from PENDING to REFUNDED, with one
\* event for each of its four transitions
C19_Witness ==
  \E id \in OrderIds :
    /\ orders[id].status = "REFUNDED"
    /\ Len(events[id]) = 5
    /\ events[id][2].payload = [from |-> "PENDING", to |-> "PROCESSING",
                                trackingNumber |-> NoTracking]
    /\ events[id][3].payload.from = "PROCESSING" /\ events[id][3].payload.to = "SHIPPED"
    /\ events[id][4].payload.from = "SHIPPED" /\ events[id][4].payload.to = "DELIVERED"
    /\ events[id][5].payload.from = "DELIVERED" /\ events[id][5].payload.to = "REFUNDED"

\* C20: an order's tracking number changes only in the status transaction of
\* an update whose target status is SHIPPED; an update to any other target
\* leaves it as it was, also when the request carries a tracking number.
C20_TrackingOnlyWhenShipped ==
  [][ \A id \in OrderIds :
        orders'[id].trackingNumber # orders[id].trackingNumber =>
          \E s \in Slots :
            /\ IsUpdateTxStep(s)
            /\ req[s].id = id
            /\ req[s].status = "SHIPPED"
    ]_vars

\* the update in slot s was answered as failed by its transaction
IsFailedTxStep(s) ==
  IsUpdateTxStep(s) /\ req'[s].pc = "done" /\ req'[s].code = 500

\* C21: a status transaction that fails at one of its writes (a stock
\* increment, the status write, the STATUS_CHANGE insert) leaves nothing
\* behind: stock, orders and events are as they were, and the update is
\* answered 500; a status transaction that does not fail is answered 200 or
\* goes on to the shipping notification.
C21_FailedUpdateLeavesNothing ==
  [][ \A s \in Slots :
        IsUpdateTxStep(s) =>
          \/ /\ IsFailedTxStep(s)
             /\ stock' = stock /\ orders' = orders /\ events' = events
          \/ /\ ~IsFailedTxStep(s)
             /\ orders'[req[s].id].status = req[s].status
             /\ Len(events'[req[s].id]) = Len(events[req[s].id]) + 1
    ]_vars

\* the first update of a PENDING order, whose items hold stock, has failed in
\* its transaction: the order is still PENDING, its stock still taken and its
\* log has no STATUS_CHANGE event
C21_Witness ==
  \E s \in Slots :
    /\ req[s].op = "update" /\ req[s].pc = "done" /\ req[s].code = 500
    /\ req[s].id \in OrderIds
    /\ orders[req[s].id].status = "PENDING"
    /\ StatusChangeEvents(req[s].id) = {}
    /\ \E p \in Products : stock[p] < InitStock[p]
    /\ Len(orders) = 1

RECURSIVE LiveQuantity(_, _, _)
\* the quantity of product p in the items of those of the first n rows of os
\* that are not CANCELLED
LiveQuantity(os, p, n) ==
  IF n = 0 THEN 0
  ELSE LiveQuantity(os, p, n - 1)
         + (IF os[n].status # "CANCELLED"
              THEN Demand(os[n].items, p, Len(os[n].items)) ELSE 0)

\* the step cancels, in slot s, an order that is PENDING or PROCESSING
IsCancelStep(s) ==
  /\ IsUpdateTxStep(s)
  /\ req[s].status = "CANCELLED"
  /\ orders[req[s].id].status \in {"PENDING", "PROCESSING"}

\* C22: the cancellation of a PENDING or PROCESSING order gives back, for
\* every product, exactly the quantity of the order's persisted items, and
\* that is exactly what the creation took from the stock with the request's
\* item list, also for a cart that lists a product twice; so with one request
\* at a time the stock plus the quantities of the orders not cancelled is the
\* initial stock: creating and cancelling an order restores the stock.
C22_CancelRestoresStock ==
  [][ /\ \A s \in Slots :
           /\ (IsCreateTxStep(s) /\ Len(orders') = Len(orders) + 1) =>
                \A p \in Products :
                  stock[p] - stock'[p]
                    = Demand(orders'[Len(orders')].items, p,
                             Len(orders'[Len(orders')].items))
           /\ IsCancelStep(s) =>
                \A p \in Products :
                  stock'[p] - stock[p]
                    = Demand(orders[req[s].id].items, p, Len(orders[req[s].id].items))
      /\ \A p \in Products :
           stock'[p] + LiveQuantity(orders', p, Len(orders')) = InitStock[p]
    ]_vars

\* an order that lists one product twice was created and cancelled, its stock
\* was given back once and the stock is what it was before the creation
C22_Witness ==
  \E id \in OrderIds :
    /\ orders[id].status = "CANCELLED"
    /\ Len(orders[id].items) = 2
    /\ orders[id].items[1].productId = orders[id].items[2].productId
    /\ reversals[id] = 1
    /\ Len(orders) = 1
    /\ stock = InitStock

\* C23: once an order is there, no step changes its items, its total, its
\* owner, its idempotency key or its id: a step changes at most the status
\* and the tracking number of an order.
C23_OrderDataImmutable ==
  [][ \A id \in OrderIds :
        /\ id \in 1..Len(orders')
        /\ [orders'[id] EXCEPT !.status = orders[id].status,
                               !.trackingNumber = orders[id].trackingNumber]
             = orders[id]
    ]_vars

\* an order has been flagged by the fraud hook and shipped by updates, and
\* still has its item and the total of the creation
C23_Witness ==
  \E id \in OrderIds :
    /\ FlaggedEvents(id) # {}
    /\ orders[id].status = "SHIPPED"
    /\ orders[id].trackingNumber # NoTracking
    /\ Len(orders[id].items) = 1
    /\ orders[id].total = orders[id].items[1].subtotal
    /\ orders[id].total = events[id][1].payload.total
    /\ orders[id].total > 0

\* C24: a creation whose transaction has committed and that waits for the
\* fraud service eventually answers 201 with the created order, whether or
\* not the fraud service ever responds.
C24_CreationReturnsWithoutFraudService ==
  \A s \in Slots :
    (req[s].op = "create" /\ req[s].pc = "fraud")
      ~> (req[s].op = "create" /\ req[s].pc = "done" /\ req[s].code = 201)

\* the fraud hook of the creation of order id is still running
HookRunning(id) ==
  \E s \in Slots :
    /\ req[s].op = "create" /\ req[s].pc \in {"fraud", "flagStatus", "flagEvent"}
    /\ req[s].order.id = id

\* C25: once the fraud hook of an order's creation has finished, the order has
\* a FRAUD_FLAGGED event exactly when the hook has set its status to
\* PENDING_REVIEW.
C25_FlaggingAllOrNothing ==
  \A id \in OrderIds :
    ~HookRunning(id) =>
      (FlaggedEvents(id) # {} <=> orders[id].status = "PENDING_REVIEW")

\* C26: for every product, the stock plus the quantities of the product in
\* the items of the orders that are not CANCELLED is the initial stock, in
\* every state of concurrent creations, fraud hooks and status updates.
C26_StockConservation ==
  \A p \in Products :
    stock[p] + LiveQuantity(orders, p, Len(orders)) = InitStock[p]

StatusChangeSeq(id) ==
  SelectSeq(events[id], LAMBDA e : e.type = "STATUS_CHANGE")

\* C27: the STATUS_CHANGE events of every order, in commit order, form a
\* chain: the first starts at PENDING, each starts at the status the one
\* before it ended at, and each records a pair of the transition table.
C27_AuditChain ==
  \A id \in OrderIds :
    LET chain == StatusChangeSeq(id)
    IN \A i \in 1..Len(chain) :
         /\ chain[i].payload.from = (IF i = 1 THEN "PENDING" ELSE chain[i - 1].payload.to)
         /\ chain[i].payload.to \in AllowedTargets(chain[i].payload.from)

\* the statuses an order can have: the table's, and the one the fraud hook sets
ReachableStatuses == OrderStatus \cup {"PENDING_REVIEW"}

\* is there a sequence of at most n status updates, each let through by the
\* handler's validation, that leads from status from to a terminal status
RECURSIVE CanFinish(_, _)
CanFinish(from, n) ==
  \/ from \in TerminalStatus
  \/ /\ n > 0
     /\ \E to \in ReachableStatuses :
          TransitionCheck(from, to) = "valid" /\ CanFinish(to, n - 1)

\* C28: no order is ever in a dead-end status: from the status of every
\* order, some sequence of status updates that the handler lets through
\* leads to CANCELLED or REFUNDED.
C28_NoDeadEndStatus ==
  \A id \in OrderIds :
    CanFinish(orders[id].status, Cardinality(ReachableStatuses))

\* C29: every persisted order has at least one item and every persisted item
\* has a quantity of at least 1 (so a creation with an empty item list
\* persists no order).
C29_OrdersHaveItems ==
  \A id \in OrderIds :
    /\ Len(orders[id].items) >= 1
    /\ \A i \in 1..Len(orders[id].items) : orders[id].items[i].quantity >= 1

\* the creation in slot s was answered on the idempotent-replay path
IsReplay(r) ==
  r.op = "create" /\ r.pc = "done" /\ r.code = 409 /\ r.body # NullOrder

\* C30: the idempotent-replay path of a creation answers with an existing
\* order only when the requester owns it: a request of user B with a key
\* user A has used never receives user A's order.
C30_ReplayOnlyToOwner ==
  \A s \in Slots : IsReplay(req[s]) => req[s].body.userId = req[s].userId

====
